---- MODULE Spec2Model ----
(***************************************************************************)
(* A model of one backup run of mdbackup: main_backup, _do_backup,         *)
(* _run_tasks and _create_backup_manifest of mdbackup/_commands/backup.py. *)
(*                                                                         *)
(* Every hook call, every pipeline invocation and every filesystem         *)
(* operation of the run is one step.  An exception is modelled by the      *)
(* step that raises it moving the control state to the handler that        *)
(* catches it.  Path strings are sequences of one-character strings, so    *)
(* that str.startswith, the pathlib "/" operator and the resolution of     *)
(* ".." by the operating system are computed and not assumed.              *)
(***************************************************************************)
EXTENDS Integers, Sequences, FiniteSets, TLC

\* ------------------------------------------------------------------ bounds

\* The largest number of definition files in the tasks folder.
MaxDefs == 2

\* The largest number of tasks in one definition file.
MaxTasks == 2

\* The number of distinct minutes (directory timestamps) of the model.
MaxTime == 2

\* --------------------------------------------------------------- constants

MANIFEST_VERSION == 1

\* The name of the working directory, Path(backups_folder, '.partial'), in
\* the map of directories under the backups root.  Timestamped directories
\* are named by their minute, 1..MaxTime.
PartialName == 0

Times == 1..MaxTime

DirNames == {PartialName} \cup Times

\* ------------------------------------------------------------------- paths

\* str(backups_folder): "/b".
BackupsFolder == <<"/", "b">>

\* The file name ".partial", abbreviated ".p".
PartialSegment == <<".", "p">>

IsAbsolute(s) == Len(s) > 0 /\ s[1] = "/"

RECURSIVE SplitFrom(_, _, _)
\* The segments of s[i..] between "/" characters, `cur` being the segment
\* read so far; empty segments are dropped.
SplitFrom(s, i, cur) ==
    LET done == IF cur = <<>> THEN <<>> ELSE <<cur>>
    IN  IF i > Len(s) THEN done
        ELSE IF s[i] = "/" THEN done \o SplitFrom(s, i + 1, <<>>)
        ELSE SplitFrom(s, i + 1, Append(cur, s[i]))

NotDot(seg) == seg # <<".">>

\* pathlib's parsing of a string: "." segments and empty segments are
\* dropped, ".." segments are kept.
Parts(s) == SelectSeq(SplitFrom(s, 1, <<>>), NotDot)

\* Path(s)
PathOf(s) == [abs |-> IsAbsolute(s), parts |-> Parts(s)]

\* p / s: an absolute right operand replaces the left one.
Div(p, s) ==
    IF IsAbsolute(s) THEN PathOf(s)
    ELSE [abs |-> p.abs, parts |-> p.parts \o Parts(s)]

RECURSIVE JoinParts(_)
JoinParts(parts) ==
    IF parts = <<>> THEN <<>>
    ELSE IF Len(parts) = 1 THEN parts[1]
    ELSE parts[1] \o <<"/">> \o JoinParts(Tail(parts))

\* str(p)
Str(p) ==
    IF p.abs THEN <<"/">> \o JoinParts(p.parts)
    ELSE IF p.parts = <<>> THEN <<".">>
    ELSE JoinParts(p.parts)

\* s.startswith(prefix)
StartsWith(s, prefix) ==
    /\ Len(prefix) <= Len(s)
    /\ SubSeq(s, 1, Len(prefix)) = prefix

IsPrefixSeq(a, b) ==
    /\ Len(a) <= Len(b)
    /\ SubSeq(b, 1, Len(a)) = a

RECURSIVE ResolveParts(_, _)
\* The directory the operating system reaches by walking `parts` from the
\* directory `acc`: ".." goes to the parent (the root is its own parent).
ResolveParts(parts, acc) ==
    IF parts = <<>> THEN acc
    ELSE IF parts[1] = <<".", ".">>
         THEN ResolveParts(Tail(parts),
                           IF acc = <<>> THEN <<>>
                           ELSE SubSeq(acc, 1, Len(acc) - 1))
         ELSE ResolveParts(Tail(parts), Append(acc, parts[1]))

\* The location of the (absolute) path p on disk.
Resolved(p) == ResolveParts(p.parts, <<>>)

\* p is root itself or lies below it on disk.
IsWithin(p, root) == IsPrefixSeq(Resolved(root), Resolved(p))

\* p lies strictly below root on disk.
IsStrictSubpath(p, root) == IsWithin(p, root) /\ Resolved(p) # Resolved(root)

\* p.relative_to(base) succeeds: a comparison of the parts as written.
RelativeToOk(p, base) ==
    /\ p.abs = base.abs
    /\ IsPrefixSeq(base.parts, p.parts)

\* p.relative_to(base)
RelativeTo(p, base) == SubSeq(p.parts, Len(base.parts) + 1, Len(p.parts))

\* tmp_backup = Path(backups_folder, '.partial')
TmpBackup == Div(PathOf(BackupsFolder), PartialSegment)

\* ------------------------------------------------------------------ inputs

\* The values of a definition's `inside` key that the model draws from:
\* "s", "../e", "/x" and "/b/.pe" (an absolute path outside the working
\* directory "/b/.p" whose string begins with the working directory's).
InsideValues ==
    { <<"s">>,
      <<".", ".", "/", "e">>,
      <<"/", "x">>,
      <<"/", "b", "/", ".", "p", "e">> }

\* tasks.inside_folder: {} is None, {s} is the string s.
InsideFolders == {{}} \cup {{s} : s \in InsideValues}

\* A task of a definition.  Tasks of one definition have distinct names: a
\* task is named by its position in the definition.
TaskRecords == [stop_on_fail : BOOLEAN]

TaskLists == UNION {[1..k -> TaskRecords] : k \in 0..MaxTasks}

\* A parsed definition file, Tasks(path).  Definition files are named by
\* their position in the sorted list of files.
Definitions == [inside_folder : InsideFolders, tasks : TaskLists]

\* What a hook invocation does: it returns, or its failure propagates.
HookResults == {"ok", "raised"}

\* What run_task_actions does: it returns the path the pipeline produced,
\* or raises an exception whose args are all strings ("fail"), or one whose
\* args are not (subprocess.CalledProcessError(returncode, cmd), OSError(
\* errno, strerror): "fail_nonstr").
PipelineResults == {"ok", "fail", "fail_nonstr"}

\* ------------------------------------------------------------------- state

\* A directory under the backups root: whether it exists, whose outputs it
\* holds ("old": left by an earlier run, "new": written by this run) and
\* its .manifest.yaml (<<>>: none, <<m>>: the manifest m).
NoDir == [exists |-> FALSE, files |-> {}, manifest |-> <<>>]

EmptyDir == [exists |-> TRUE, files |-> {}, manifest |-> <<>>]

\* A backup sealed by an earlier successful run.
OldBackup ==
    [exists |-> TRUE, files |-> {"old"},
     manifest |-> <<[version |-> MANIFEST_VERSION, uploaded |-> FALSE,
                     tasksDefinitions |-> <<>>]>>]

\* A working directory left by an earlier run that did not clean up.
LeftoverPartial == [exists |-> TRUE, files |-> {"old"}, manifest |-> <<>>]

VARIABLES
    pc,          \* the control state of main_backup / _do_backup / _run_tasks
    fs,          \* the directories under the backups root, by name
    current,     \* the `current` symlink: {} absent, {n} a link to n
    created,     \* the locations final_backup_path.mkdir has created
    prev_backup, \* _do_backup's prev_backup
    defs_n,      \* the number of files _get_tasks_definitions returned
    di,          \* the position of the definition file being processed
    tasks,       \* the parsed definition being processed (<<>> none, <<d>>)
    ti,          \* the position of the task being processed
    final_backup_path, \* _run_tasks's final_backup_path
    tasks_results,     \* _run_tasks's tasks_results, by task name
    tasks_definitions_results, \* _do_backup's dict, in insertion order
    exc,         \* the exception being handled: "none", "str", "nonstr"
    backup,      \* _do_backup's backup: {} before the rename, {minute} after
    events,      \* history: the files parsed, hooks fired, pipelines invoked
    preCurrent   \* history: the value of current when the run started

\* The state of the other specifications of this module, which model single
\* calls of the pure functions of backup.py on inputs drawn by their Init.
\* A run of main_backup (Spec) leaves them as they are.
VARIABLES
    env,         \* _resolve_secrets's env: the mapping to resolve
    secrets,     \* _resolve_secrets's secrets: the list of secret backends
    new_env,     \* what _resolve_secrets did: <<>> not called yet, <<r>>
    asked,       \* history: the get_secret calls made, in order
    config,      \* main_backup's config: its env and its secrets
    tasks_env,   \* tasks.env of the definition the task belongs to
    this_task,   \* the task: its env and its actions
    resolved_env,       \* _do_backup's resolved_env: <<>> not set, <<env>>
    resolved_tasks_env, \* _do_backup's resolved_tasks_env, likewise
    actions,     \* _run_tasks's actions (line 100), likewise
    invoked,     \* history: the action lists run_task_actions was given
    fired,       \* history: what the task's before hook did, <<>> not fired
    epc,         \* the control state on the way from line 228 to line 109
    iterdir,     \* the entries of the tasks folder, as defs_dir.iterdir()
                 \* enumerates them
    definitions, \* what _get_tasks_definitions returned: <<>> or <<list>>
    dpos,        \* the position in the list of the file being processed
    dlog,        \* history: the hooks and tasks of the definitions, in order
    dpc,         \* the control state of the loop of line 236
    pcs,         \* two runs on one backups root: the control state of each
    ntasks,      \* the number of tasks each of the two runs has to run
    tdone,       \* the number of tasks each of them has run
    partial,     \* the .partial directory they share: whether it exists and
                 \* the runs whose outputs it holds
    sealed,      \* the timestamped directories, by minute
    mine,        \* the minute each run has renamed .partial to, 0: none yet
    curlink,     \* the current symlink they share: {} absent, {minute}
    taken        \* history: the run whose rmtree or rename took .partial
                 \* away, 0 when .partial has been created since, or never

secretsVars == << env, secrets, new_env, asked >>

envVars ==
    << config, tasks_env, this_task, resolved_env, resolved_tasks_env, actions,
       invoked, fired, epc >>

defsVars == << iterdir, definitions, dpos, dlog, dpc >>

twoVars == << pcs, ntasks, tdone, partial, sealed, mine, curlink, taken >>

otherVars == << secretsVars, envVars, defsVars, twoVars >>

\* No call of _resolve_secrets is being modelled.
SecretsIdle ==
    /\ env = <<>>
    /\ secrets = <<>>
    /\ new_env = <<>>
    /\ asked = <<>>

\* No task's environment is being modelled.
EnvIdle ==
    /\ config = <<>>
    /\ tasks_env = <<>>
    /\ this_task = <<>>
    /\ resolved_env = <<>>
    /\ resolved_tasks_env = <<>>
    /\ actions = <<>>
    /\ invoked = <<>>
    /\ fired = <<>>
    /\ epc = "idle"

\* No tasks folder is being modelled.
DefsIdle ==
    /\ iterdir = <<>>
    /\ definitions = <<>>
    /\ dpos = 0
    /\ dlog = <<>>
    /\ dpc = "idle"

\* No pair of runs is being modelled.
TwoIdle ==
    /\ pcs = <<>>
    /\ ntasks = <<>>
    /\ tdone = <<>>
    /\ partial = <<>>
    /\ sealed = <<>>
    /\ mine = <<>>
    /\ curlink = {}
    /\ taken = 0

OthersIdle == SecretsIdle /\ EnvIdle /\ DefsIdle /\ TwoIdle

vars ==
    << pc, fs, current, created, prev_backup, defs_n, di, tasks, ti,
       final_backup_path, tasks_results, tasks_definitions_results, exc,
       backup, events, preCurrent, otherVars >>

\* The empty dict.
EmptyDict == [n \in {} |-> {}]

\* d[k] = v on the dict d
DictSet(d, k, v) ==
    [n \in DOMAIN d \cup {k} |-> IF n = k THEN v ELSE d[n]]

Event(ev, d, t, res) == [ev |-> ev, d |-> d, t |-> t, res |-> res]

\* The states the backups root can be in when a run starts: nothing yet, or
\* a sealed backup that current points at; and no working directory, or one
\* left behind.
Init ==
    /\ pc = "start"
    /\ \E old \in BOOLEAN, left \in BOOLEAN :
         /\ fs = [n \in DirNames |->
                    IF n = PartialName
                    THEN (IF left THEN LeftoverPartial ELSE NoDir)
                    ELSE IF n = 1 /\ old THEN OldBackup ELSE NoDir]
         /\ current = IF old THEN {1} ELSE {}
    /\ preCurrent = current
    /\ created = {}
    /\ prev_backup = {}
    /\ defs_n = 0
    /\ di = 0
    /\ tasks = <<>>
    /\ ti = 0
    /\ final_backup_path = TmpBackup
    /\ tasks_results = EmptyDict
    /\ tasks_definitions_results = <<>>
    /\ exc = "none"
    /\ backup = {}
    /\ events = <<>>
    /\ OthersIdle

\* ---------------------------------------------------------------- helpers

\* run_hook(name, ...): the hook fires (the event is recorded with what the
\* invocation did).
Fire(ev, d, t, res) == events' = Append(events, Event(ev, d, t, res))

\* The definition being processed.
Tasks == tasks[1]

\* The task being processed.
Task == Tasks.tasks[ti]

\* for task in tasks.tasks: the next iteration, or the loop's end.
TaskLoopPc(i) == IF i <= Len(Tasks.tasks) THEN "task_before" ELSE "def_store"

\* A mutant of SealingOrder: the alias is replaced before the manifest is
\* written.
SealingOrderAliasFirst ==
    <<"rename", "unlink", "symlink", "manifest", "backup_after">>

\* The steps of _do_backup after the loop over the definitions, lines
\* 257-269, in the order of the code.
SealingOrder == <<"rename", "manifest", "unlink", "symlink", "backup_after">>

\* The step after the sealing step p; _do_backup returns after the last.
SealingNext(p) ==
    LET i == CHOOSE k \in 1..Len(SealingOrder) : SealingOrder[k] = p
    IN  IF i < Len(SealingOrder) THEN SealingOrder[i + 1] ELSE "done"

\* for tasks_definition in ...: the next iteration, or the loop's end.
DefLoopPc(i) == IF i <= defs_n THEN "load_def" ELSE SealingOrder[1]

\* A mutant of ParseErrorPc: the exception is swallowed and the loop goes on
\* with the file.
ParseErrorRetries == "load_def"

\* except KeyError: ...; raise, lines 240-242: the exception leaves
\* _do_backup.
ParseErrorPc == "main_except"

\* A mutant of DefExceptPc: nothing is raised after the definition's error
\* hook, and line 255 follows.
DefExceptContinues == "def_after"

\* raise Exception(f'One of the tasks of {tasks.name} failed, ...'), line
\* 253: the exception leaves _do_backup.
DefExceptPc == "main_except"

\* backup_path / tasks.inside_folder
FinalBackupPath(inside) == Div(TmpBackup, inside)

\* not str(final_backup_path).startswith(str(backup_path)): the guard raises.
GuardRaises(final) == ~StartsWith(Str(final), Str(TmpBackup))

\* The path a pipeline returns: a file below the folder it was given.
PipelineOutput == Div(final_backup_path, <<"o">>)

\* 'result': tasks_results[task.name] for task in tasks.tasks raises KeyError
HasKeyError(pair) ==
    \E t \in DOMAIN pair.tasks.tasks : t \notin DOMAIN pair.results

\* Some entry of the results makes the manifest's construction raise.
ManifestRaises ==
    \E k \in DOMAIN tasks_definitions_results :
        HasKeyError(tasks_definitions_results[k])

\* A mutant of ManifestDict: every definition is written under one key, so
\* that only the last one is left.
ManifestDictLastOnly ==
    [version |-> MANIFEST_VERSION,
     uploaded |-> FALSE,
     tasksDefinitions |->
        [k \in {n \in DOMAIN tasks_definitions_results :
                    n = Len(tasks_definitions_results)} |->
            LET pair == tasks_definitions_results[k]
            IN  [file |-> pair.file_name,
                 inside |-> pair.tasks.inside_folder,
                 tasks |-> [t \in DOMAIN pair.tasks.tasks |->
                              [name |-> t, result |-> pair.results[t]]]]]]

\* manifest_dict
ManifestDict ==
    [version |-> MANIFEST_VERSION,
     uploaded |-> FALSE,
     tasksDefinitions |->
        [k \in DOMAIN tasks_definitions_results |->
            LET pair == tasks_definitions_results[k]
            IN  [file |-> pair.file_name,
                 inside |-> pair.tasks.inside_folder,
                 tasks |-> [t \in DOMAIN pair.tasks.tasks |->
                              [name |-> t, result |-> pair.results[t]]]]]]

\* A rename onto `target` fails when target is a directory that is not empty.
RenameRaises(target) ==
    \/ ~fs[PartialName].exists
    \/ /\ fs[target].exists
       /\ (fs[target].files # {} \/ fs[target].manifest # <<>>)

\* A mutant of SymlinkTarget: the link is made to tmp_backup.
SymlinkTargetPartial == {PartialName}

\* os.symlink(backup, current_backup): what the link points at.
SymlinkTarget == backup

\* ----------------------------------------------------------------- actions

\* _do_backup, lines 225-228: prev_backup is read and the global environment
\* is resolved; a secret backend that raises (FileSecretsBackend.get_secret
\* opens a file) ends _do_backup before backup:before.
ResolveGlobalEnv ==
    /\ pc = "start"
    /\ prev_backup' = current
    /\ \E ok \in BOOLEAN :
         IF ok THEN pc' = "backup_before" /\ exc' = exc
         ELSE pc' = "main_except" /\ exc' = "str"
    /\ UNCHANGED << fs, current, created, defs_n, di, tasks, ti,
                    final_backup_path, tasks_results,
                    tasks_definitions_results, backup, events, preCurrent,
                    otherVars >>

\* run_hook('backup:before', ...), line 230
HookBackupBefore ==
    /\ pc = "backup_before"
    /\ \E res \in HookResults :
         /\ Fire("backup:before", 0, 0, res)
         /\ IF res = "ok" THEN pc' = "mkdir" /\ exc' = exc
            ELSE pc' = "main_except" /\ exc' = "str"
    /\ UNCHANGED << fs, current, created, prev_backup, defs_n, di, tasks, ti,
                    final_backup_path, tasks_results,
                    tasks_definitions_results, backup, preCurrent,
                    otherVars >>

\* tmp_backup.mkdir(exist_ok=True, parents=True), lines 233-234
MkdirPartial ==
    /\ pc = "mkdir"
    /\ fs' = [fs EXCEPT ![PartialName] =
                IF fs[PartialName].exists THEN fs[PartialName] ELSE EmptyDir]
    /\ pc' = "list_defs"
    /\ UNCHANGED << current, created, prev_backup, defs_n, di, tasks, ti,
                    final_backup_path, tasks_results,
                    tasks_definitions_results, exc, backup, events,
                    preCurrent,
                    otherVars >>

\* _get_tasks_definitions(config_path), line 236: the sorted list of the
\* definition files, or FileNotFoundError when there is no tasks folder.
GetTasksDefinitions ==
    /\ pc = "list_defs"
    /\ \/ \E n \in 0..MaxDefs :
            /\ defs_n' = n
            /\ di' = 1
            /\ pc' = IF 1 <= n THEN "load_def" ELSE SealingOrder[1]
            /\ exc' = exc
       \/ /\ pc' = "main_except"
          /\ exc' = "str"
          /\ UNCHANGED << defs_n, di >>
    /\ UNCHANGED << fs, current, created, prev_backup, tasks, ti,
                    final_backup_path, tasks_results,
                    tasks_definitions_results, backup, events, preCurrent,
                    otherVars >>

\* tasks = Tasks(tasks_definition), lines 237-242: the file is parsed when
\* the loop reaches it; KeyError is logged and raised again.
ParseDefinition ==
    /\ pc = "load_def"
    /\ \/ \E d \in Definitions :
            /\ tasks' = <<d>>
            /\ Fire("parse", di, 0, "ok")
            /\ pc' = "def_before"
            /\ exc' = exc
       \/ /\ Fire("parse", di, 0, "raised")
          /\ pc' = ParseErrorPc
          /\ exc' = "str"
          /\ tasks' = tasks
    /\ UNCHANGED << fs, current, created, prev_backup, defs_n, di, ti,
                    final_backup_path, tasks_results,
                    tasks_definitions_results, backup, preCurrent,
                    otherVars >>

\* run_hook(f'backup:tasks:{tasks.name}:before', ...), line 245: outside the
\* try of line 246.
HookDefBefore ==
    /\ pc = "def_before"
    /\ \E res \in HookResults :
         /\ Fire("def:before", di, 0, res)
         /\ IF res = "ok" THEN pc' = "def_env" /\ exc' = exc
            ELSE pc' = "main_except" /\ exc' = "str"
    /\ UNCHANGED << fs, current, created, prev_backup, defs_n, di, tasks, ti,
                    final_backup_path, tasks_results,
                    tasks_definitions_results, backup, preCurrent,
                    otherVars >>

\* resolved_tasks_env = _resolve_secrets({**resolved_env, **tasks.env},
\* secrets), line 247, inside the try of line 246: a secret backend that
\* raises is caught at line 250.
ResolveTasksEnv ==
    /\ pc = "def_env"
    /\ \E ok \in BOOLEAN :
         IF ok THEN pc' = "run_tasks" /\ exc' = exc
         ELSE pc' = "def_except" /\ exc' = "str"
    /\ UNCHANGED << fs, current, created, prev_backup, defs_n, di, tasks, ti,
                    final_backup_path, tasks_results,
                    tasks_definitions_results, backup, events, preCurrent,
                    otherVars >>

\* _run_tasks, lines 85-95: the inside folder is joined to the backup path,
\* checked, and created.  ValueError is caught at line 250.
RunTasksEnter ==
    /\ pc = "run_tasks"
    /\ tasks_results' = EmptyDict
    /\ ti' = 1
    /\ IF Tasks.inside_folder = {}
       THEN /\ final_backup_path' = TmpBackup
            /\ pc' = TaskLoopPc(1)
            /\ UNCHANGED << created, exc, fs >>
       ELSE LET inside == CHOOSE s \in Tasks.inside_folder : TRUE
                final == FinalBackupPath(inside)
            IN  IF GuardRaises(final)
                THEN /\ pc' = "def_except"
                     /\ exc' = "str"
                     /\ UNCHANGED << created, final_backup_path, fs >>
                ELSE /\ final_backup_path' = final
                     /\ created' = created \cup {Resolved(final)}
                     /\ pc' = TaskLoopPc(1)
                     /\ UNCHANGED << exc, fs >>
    /\ UNCHANGED << current, prev_backup, defs_n, di, tasks,
                    tasks_definitions_results, backup, events, preCurrent,
                    otherVars >>

\* run_hook(f'...:task:{task.name}:before', ...), line 97: before the try of
\* line 99, so its failure leaves _run_tasks.
HookTaskBefore ==
    /\ pc = "task_before"
    /\ \E res \in HookResults :
         /\ Fire("task:before", di, ti, res)
         /\ IF res = "ok" THEN pc' = "task_run" /\ exc' = exc
            ELSE pc' = "def_except" /\ exc' = "str"
    /\ UNCHANGED << fs, current, created, prev_backup, defs_n, di, tasks, ti,
                    final_backup_path, tasks_results,
                    tasks_definitions_results, backup, preCurrent,
                    otherVars >>

\* What the statement of lines 100-109 does when the pipeline does `res`:
\* relative_to raises ValueError (its args are strings) on a path that does
\* not begin with the parts of backup_path.
StatementResult(res) ==
    IF res = "ok" /\ ~RelativeToOk(PipelineOutput, TmpBackup) THEN "fail"
    ELSE res

\* tasks_results[task.name] = run_task_actions(task.name, actions)
\*     .relative_to(backup_path), lines 99-109.  The event records the
\* invocation and what the statement did.
RunTaskActions ==
    /\ pc = "task_run"
    /\ \E res \in PipelineResults :
         /\ Fire("invoke", di, ti, StatementResult(res))
         /\ IF res = "ok"
            THEN /\ fs' = IF IsWithin(final_backup_path, TmpBackup)
                          THEN [fs EXCEPT ![PartialName].files = @ \cup {"new"}]
                          ELSE fs
                 /\ IF RelativeToOk(PipelineOutput, TmpBackup)
                    THEN /\ tasks_results' =
                              DictSet(tasks_results, ti,
                                      RelativeTo(PipelineOutput, TmpBackup))
                         /\ pc' = "task_after"
                         /\ exc' = exc
                    ELSE /\ pc' = "task_except"
                         /\ exc' = "str"
                         /\ UNCHANGED tasks_results
            ELSE /\ pc' = "task_except"
                 /\ exc' = IF res = "fail" THEN "str" ELSE "nonstr"
                 /\ UNCHANGED << fs, tasks_results >>
    /\ UNCHANGED << current, created, prev_backup, defs_n, di, tasks, ti,
                    final_backup_path, tasks_definitions_results, backup,
                    preCurrent,
                    otherVars >>

\* A mutant of Reraises: the exception is never raised again.
ReraisesNever(task) == FALSE

\* A mutant of Reraises: the exception is always raised again.
ReraisesAlways(task) == TRUE

\* if task.stop_on_fail: raise e, lines 117-118
Reraises(task) == task.stop_on_fail

\* except Exception as e, lines 110-118: ', '.join(e.args) raises TypeError
\* when an argument of the exception is not a string, before run_hook is
\* called; otherwise the task's error hook fires and the exception is raised
\* again when the task stops on failure.
TaskExcept ==
    /\ pc = "task_except"
    /\ IF exc = "nonstr"
       THEN /\ pc' = "def_except"
            /\ exc' = "str"
            /\ UNCHANGED events
       ELSE \E res \in HookResults :
              /\ Fire("task:error", di, ti, res)
              /\ IF res = "raised" THEN pc' = "def_except" /\ exc' = "str"
                 ELSE IF Reraises(Task) THEN pc' = "def_except" /\ exc' = exc
                 ELSE pc' = "task_after" /\ exc' = "none"
    /\ UNCHANGED << fs, current, created, prev_backup, defs_n, di, tasks, ti,
                    final_backup_path, tasks_results,
                    tasks_definitions_results, backup, preCurrent,
                    otherVars >>

\* run_hook(f'...:task:{task.name}:after', ...), line 120, and the next
\* iteration of the loop of line 96.
HookTaskAfter ==
    /\ pc = "task_after"
    /\ \E res \in HookResults :
         /\ Fire("task:after", di, ti, res)
         /\ IF res = "ok"
            THEN pc' = TaskLoopPc(ti + 1) /\ ti' = ti + 1 /\ exc' = exc
            ELSE pc' = "def_except" /\ exc' = "str" /\ ti' = ti
    /\ UNCHANGED << fs, current, created, prev_backup, defs_n, di, tasks,
                    final_backup_path, tasks_results,
                    tasks_definitions_results, backup, preCurrent,
                    otherVars >>

\* tasks_definitions_results[tasks.file_name] = (tasks, result), line 249
StoreResults ==
    /\ pc = "def_store"
    /\ tasks_definitions_results' =
          Append(tasks_definitions_results,
                 [file_name |-> di, tasks |-> Tasks, results |-> tasks_results])
    /\ pc' = "def_after"
    /\ UNCHANGED << fs, current, created, prev_backup, defs_n, di, tasks, ti,
                    final_backup_path, tasks_results, exc, backup, events,
                    preCurrent,
                    otherVars >>

\* except Exception as e, lines 250-253: the definition's error hook fires
\* and a new exception is raised.
DefExcept ==
    /\ pc = "def_except"
    /\ \E res \in HookResults : Fire("def:error", di, 0, res)
    /\ pc' = DefExceptPc
    /\ exc' = "str"
    /\ UNCHANGED << fs, current, created, prev_backup, defs_n, di, tasks, ti,
                    final_backup_path, tasks_results,
                    tasks_definitions_results, backup, preCurrent,
                    otherVars >>

\* run_hook(f'backup:tasks:{tasks.name}:after', ...), line 255, and the next
\* iteration of the loop of line 236.
HookDefAfter ==
    /\ pc = "def_after"
    /\ \E res \in HookResults :
         /\ Fire("def:after", di, 0, res)
         /\ IF res = "ok"
            THEN pc' = DefLoopPc(di + 1) /\ di' = di + 1 /\ exc' = exc
            ELSE pc' = "main_except" /\ exc' = "str" /\ di' = di
    /\ UNCHANGED << fs, current, created, prev_backup, defs_n, tasks, ti,
                    final_backup_path, tasks_results,
                    tasks_definitions_results, backup, preCurrent,
                    otherVars >>

\* backup = _generate_backup_path(backups_folder); tmp_backup.rename(backup),
\* lines 257-259: the name is the minute the clock shows.
RenamePartial ==
    /\ pc = "rename"
    /\ \E minute \in Times :
         IF RenameRaises(minute)
         THEN /\ pc' = "main_except"
              /\ exc' = "str"
              /\ UNCHANGED << fs, backup >>
         ELSE /\ fs' = [fs EXCEPT ![minute] = fs[PartialName],
                                  ![PartialName] = NoDir]
              /\ backup' = {minute}
              /\ pc' = SealingNext("rename")
              /\ exc' = exc
    /\ UNCHANGED << current, created, prev_backup, defs_n, di, tasks, ti,
                    final_backup_path, tasks_results,
                    tasks_definitions_results, events, preCurrent,
                    otherVars >>

\* _create_backup_manifest(backup, tasks_definitions_results), line 262
CreateBackupManifest ==
    /\ pc = "manifest"
    /\ IF ManifestRaises
       THEN /\ pc' = "main_except"
            /\ exc' = "str"
            /\ UNCHANGED fs
       ELSE /\ \E b \in backup :
                 fs' = [fs EXCEPT ![b].manifest = <<ManifestDict>>]
            /\ pc' = SealingNext("manifest")
            /\ exc' = exc
    /\ UNCHANGED << current, created, prev_backup, defs_n, di, tasks, ti,
                    final_backup_path, tasks_results,
                    tasks_definitions_results, backup, events, preCurrent,
                    otherVars >>

\* if current_backup.is_symlink(): current_backup.unlink(), lines 264-266
UnlinkCurrent ==
    /\ pc = "unlink"
    /\ current' = {}
    /\ pc' = SealingNext("unlink")
    /\ UNCHANGED << fs, created, prev_backup, defs_n, di, tasks, ti,
                    final_backup_path, tasks_results,
                    tasks_definitions_results, exc, backup, events,
                    preCurrent,
                    otherVars >>

\* os.symlink(backup, current_backup), line 267
SymlinkCurrent ==
    /\ pc = "symlink"
    /\ current' = SymlinkTarget
    /\ pc' = SealingNext("symlink")
    /\ UNCHANGED << fs, created, prev_backup, defs_n, di, tasks, ti,
                    final_backup_path, tasks_results,
                    tasks_definitions_results, exc, backup, events,
                    preCurrent,
                    otherVars >>

\* run_hook('backup:after', str(backup)); return backup, lines 269-271
HookBackupAfter ==
    /\ pc = "backup_after"
    /\ \E res \in HookResults :
         /\ Fire("backup:after", 0, 0, res)
         /\ IF res = "ok" THEN pc' = SealingNext("backup_after") /\ exc' = exc
            ELSE pc' = "main_except" /\ exc' = "str"
    /\ UNCHANGED << fs, current, created, prev_backup, defs_n, di, tasks, ti,
                    final_backup_path, tasks_results,
                    tasks_definitions_results, backup, preCurrent,
                    otherVars >>

\* except Exception as e: run_hook('backup:error', ...), lines 285-287: a
\* failure of the hook leaves main_backup before the working directory is
\* removed.
MainExcept ==
    /\ pc = "main_except"
    /\ \E res \in HookResults :
         /\ Fire("backup:error", 0, 0, res)
         /\ pc' = IF res = "ok" THEN "rmtree" ELSE "crashed"
    /\ UNCHANGED << fs, current, created, prev_backup, defs_n, di, tasks, ti,
                    final_backup_path, tasks_results,
                    tasks_definitions_results, exc, backup, preCurrent,
                    otherVars >>

\* shutil.rmtree(str(config.backups_path / '.partial')); sys.exit(1), lines
\* 288-289: rmtree raises FileNotFoundError when there is no such directory.
RemovePartial ==
    /\ pc = "rmtree"
    /\ IF fs[PartialName].exists
       THEN /\ fs' = [fs EXCEPT ![PartialName] = NoDir]
            /\ pc' = "exit1"
       ELSE /\ pc' = "crashed"
            /\ UNCHANGED fs
    /\ UNCHANGED << current, created, prev_backup, defs_n, di, tasks, ti,
                    final_backup_path, tasks_results,
                    tasks_definitions_results, exc, backup, events,
                    preCurrent,
                    otherVars >>

Next ==
    \/ ResolveGlobalEnv
    \/ HookBackupBefore
    \/ MkdirPartial
    \/ GetTasksDefinitions
    \/ ParseDefinition
    \/ HookDefBefore
    \/ ResolveTasksEnv
    \/ RunTasksEnter
    \/ HookTaskBefore
    \/ RunTaskActions
    \/ TaskExcept
    \/ HookTaskAfter
    \/ StoreResults
    \/ DefExcept
    \/ HookDefAfter
    \/ RenamePartial
    \/ CreateBackupManifest
    \/ UnlinkCurrent
    \/ SymlinkCurrent
    \/ HookBackupAfter
    \/ MainExcept
    \/ RemovePartial

Spec == Init /\ [][Next]_vars

\* ------------------------------------------------------------ run outcomes

\* main_backup has returned the backup path.
Succeeded == pc = "done"

\* main_backup has ended with sys.exit(1), or with the exception that its
\* handler raised.
Failed == pc \in {"exit1", "crashed"}

Terminated == Succeeded \/ Failed

\* ------------------------------------------------- vocabulary of the claims

\* The definition whose position in the sorted list is d: a completed one is
\* kept with its results, the one being processed is `tasks`.
DefinitionAt(d) ==
    IF d \in DOMAIN tasks_definitions_results
    THEN tasks_definitions_results[d].tasks
    ELSE Tasks

\* stopOnFail of the task t of the definition d.
StopOnFail(d, t) == DefinitionAt(d).tasks[t].stop_on_fail

\* The event i is the event `ev` of the task t of the definition d.
IsEvent(i, ev, d, t) ==
    /\ i \in DOMAIN events
    /\ events[i].ev = ev
    /\ events[i].d = d
    /\ events[i].t = t

\* The event i is the failure of a task.
IsTaskFailure(i) ==
    /\ i \in DOMAIN events
    /\ events[i].ev = "invoke"
    /\ events[i].res # "ok"

\* The event i is the failure of a task with stopOnFail = true.
IsStopFailure(i) == IsTaskFailure(i) /\ StopOnFail(events[i].d, events[i].t)

\* Some hook invocation of the run has failed.
SomeHookRaised ==
    \E i \in DOMAIN events :
        events[i].ev \notin {"invoke", "parse"} /\ events[i].res = "raised"

\* The working directory has been renamed by this run.
Renamed == backup # {}

\* The directory n is a sealed backup: a timestamped directory that exists
\* and holds its manifest.
IsSealed(n) == n \in Times /\ fs[n].exists /\ fs[n].manifest # <<>>

\* ---------------------------------------------------------------------- C1

\* C1 (as stated): in any run in which some task with stopOnFail = true
\* fails, after the run has terminated the .partial directory does not
\* exist, current has its pre-run value and the outcome is failure.
C1_FailureCleanup ==
    (Terminated /\ \E i \in DOMAIN events : IsStopFailure(i))
        => /\ ~fs[PartialName].exists
           /\ current = preCurrent
           /\ Failed

\* ---------------------------------------------------------------------- C2

\* The backup:after hook has fired.
BackupAfterFired == \E i \in DOMAIN events : events[i].ev = "backup:after"

\* The manifest of the directory this run has renamed is written.
ManifestWritten == Renamed /\ \A b \in backup : fs[b].manifest # <<>>

\* C2 (as stated): for every run whose outcome is failure, whatever step
\* failed, current equals its pre-run value when the run terminates.
C2_FailureLeavesCurrent == Failed => current = preCurrent

\* C2 (amended): current differs from its pre-run value only once the working
\* directory is renamed and the manifest written; a failed run in which
\* backup:after has not fired ends with current at its pre-run value; a failed
\* run in which backup:after has fired (the hook raised) ends with current
\* pointing at the directory the run has sealed.
C2_CurrentChangedOnlyBySealing ==
    /\ (current # preCurrent /\ pc # "symlink") => ManifestWritten
    /\ (Failed /\ ~BackupAfterFired) => current = preCurrent
    /\ (Failed /\ BackupAfterFired)
          => /\ current = backup
             /\ \A b \in current : IsSealed(b)
             /\ events[Len(events) - 1].ev = "backup:after"
             /\ events[Len(events) - 1].res = "raised"

\* A run that failed while sealing (after the rename) and left an existing
\* current as it was.
C2_Witness ==
    /\ Failed
    /\ Renamed
    /\ ~BackupAfterFired
    /\ preCurrent # {}
    /\ current = preCurrent

\* ---------------------------------------------------------------------- C3

\* C3: in every reachable state, if current exists it points at a directory
\* that exists and is a sealed backup (a timestamped directory holding its
\* manifest); it never points at .partial or at a missing directory.
C3_CurrentIsSealed ==
    /\ Cardinality(current) <= 1
    /\ \A c \in current : c # PartialName /\ IsSealed(c)

\* This run has replaced an existing current by a link to the directory it
\* has sealed.
C3_Witness ==
    /\ pc = "backup_after"
    /\ preCurrent # {}
    /\ current = backup
    /\ current # preCurrent

\* ---------------------------------------------------------------------- C4

\* The definitions the run has parsed.
ProcessedDefinitions ==
    {events[i].d : i \in {j \in DOMAIN events :
                            events[j].ev = "parse" /\ events[j].res = "ok"}}

\* The result of a task of the definition def: the path its pipeline
\* returned, relative to the working directory.
ResultIn(def) ==
    LET folder == IF def.inside_folder = {} THEN TmpBackup
                  ELSE Div(TmpBackup, CHOOSE s \in def.inside_folder : TRUE)
    IN  RelativeTo(Div(folder, <<"o">>), TmpBackup)

\* The manifest entry e lists every task of the definition d with its result.
EntryListsTasks(e, d) ==
    /\ DOMAIN e.tasks = DOMAIN DefinitionAt(d).tasks
    /\ \A t \in DOMAIN e.tasks :
         /\ e.tasks[t].name = t
         /\ e.tasks[t].result = ResultIn(DefinitionAt(d))
         /\ \E i \in DOMAIN events :
              IsEvent(i, "invoke", d, t) /\ events[i].res = "ok"

\* C4: after every successful run, current resolves to the timestamped
\* directory sealed by that run, which holds a manifest with version = 1 that
\* has exactly one entry per definition processed in the run, each entry
\* listing every task of that definition with its result.
C4_AtomicityOnSuccess ==
    Succeeded =>
        \E b \in Times :
            /\ backup = {b}
            /\ current = {b}
            /\ fs[b].exists
            /\ Len(fs[b].manifest) = 1
            /\ LET m == fs[b].manifest[1]
               IN  /\ m.version = 1
                   /\ {m.tasksDefinitions[k].file :
                          k \in DOMAIN m.tasksDefinitions} = ProcessedDefinitions
                   /\ Cardinality(DOMAIN m.tasksDefinitions)
                         = Cardinality(ProcessedDefinitions)
                   /\ \A k \in DOMAIN m.tasksDefinitions :
                         EntryListsTasks(m.tasksDefinitions[k],
                                         m.tasksDefinitions[k].file)

\* A successful run of two definitions, one of them with two tasks.
C4_Witness ==
    /\ Succeeded
    /\ Cardinality(ProcessedDefinitions) >= 2
    /\ \E d \in ProcessedDefinitions : Len(DefinitionAt(d).tasks) >= 2

\* ---------------------------------------------------------------------- C5

\* The task t of the definition d has failed.
TaskFailed(d, t) ==
    \E i \in DOMAIN events : IsEvent(i, "invoke", d, t) /\ events[i].res # "ok"

\* The task t of the definition d has succeeded, or has failed with
\* stopOnFail = false and its error hook has fired and returned.
TaskCompleted(d, t) ==
    \/ \E i \in DOMAIN events :
          IsEvent(i, "invoke", d, t) /\ events[i].res = "ok"
    \/ /\ TaskFailed(d, t)
       /\ ~StopOnFail(d, t)
       /\ \E k \in DOMAIN events :
             IsEvent(k, "task:error", d, t) /\ events[k].res = "ok"

\* Every pipeline failure of the run carries string arguments.
OnlyStringFailures ==
    \A i \in DOMAIN events :
        events[i].ev = "invoke" => events[i].res # "fail_nonstr"

\* C5 (as stated, read on the runs in which no hook invocation fails and
\* every failure carries string arguments): for every task whose before hook
\* has fired, the after hook fires later in the same run, whatever its
\* stopOnFail value, and when the task fails the error hook fires between
\* the two.
C5_AfterAlwaysFires ==
    (Terminated /\ ~SomeHookRaised /\ OnlyStringFailures) =>
        \A i \in DOMAIN events :
            events[i].ev = "task:before" =>
                \E j \in DOMAIN events :
                    /\ j > i
                    /\ IsEvent(j, "task:after", events[i].d, events[i].t)
                    /\ TaskFailed(events[i].d, events[i].t) =>
                          \E k \in DOMAIN events :
                              /\ i < k
                              /\ k < j
                              /\ IsEvent(k, "task:error",
                                         events[i].d, events[i].t)

\* C5 (amended): for every task whose before hook has fired and returned, the
\* after hook fires later in the same run exactly when the task succeeded, or
\* failed with stopOnFail = false and its error hook fired and returned; the
\* after hook of a failed task is preceded by its error hook, which follows
\* the before hook; the after hook of a task that failed with stopOnFail =
\* true never fires.
C5_AfterFiresUnlessEscalated ==
    \A i \in DOMAIN events :
        (events[i].ev = "task:before" /\ events[i].res = "ok") =>
            LET d == events[i].d
                t == events[i].t
            IN  /\ Terminated =>
                      ((\E j \in DOMAIN events :
                            j > i /\ IsEvent(j, "task:after", d, t))
                        <=> TaskCompleted(d, t))
                /\ \A j \in DOMAIN events :
                      IsEvent(j, "task:after", d, t) =>
                          /\ j > i
                          /\ TaskCompleted(d, t)
                          /\ TaskFailed(d, t) =>
                                \E k \in DOMAIN events :
                                    /\ i < k
                                    /\ k < j
                                    /\ IsEvent(k, "task:error", d, t)
                /\ (TaskFailed(d, t) /\ StopOnFail(d, t)) =>
                      ~\E j \in DOMAIN events : IsEvent(j, "task:after", d, t)

\* A terminated run in which a task failed with stopOnFail = false and got
\* its error hook and then its after hook, and the next task failed with
\* stopOnFail = true and got its error hook only.
C5_Witness ==
    /\ Terminated
    /\ \E i, k, j \in DOMAIN events :
          /\ i < k
          /\ k < j
          /\ events[i].ev = "task:before"
          /\ IsEvent(k, "task:error", events[i].d, events[i].t)
          /\ IsEvent(j, "task:after", events[i].d, events[i].t)
          /\ ~StopOnFail(events[i].d, events[i].t)
    /\ \E i, k \in DOMAIN events :
          /\ i < k
          /\ events[i].ev = "task:before"
          /\ IsEvent(k, "task:error", events[i].d, events[i].t)
          /\ StopOnFail(events[i].d, events[i].t)

\* ---------------------------------------------------------------------- C6

\* The positions of the events named in evs that belong to the definition d
\* (d = 0: to the run).
EventsOf(evs, d) ==
    {i \in DOMAIN events : events[i].ev \in evs /\ events[i].d = d}

\* The events of the tasks of a definition.
TaskEvents == {"task:before", "invoke", "task:error", "task:after"}

ResultsOf(d) ==
    IF d \in DOMAIN tasks_definitions_results
    THEN tasks_definitions_results[d].results
    ELSE tasks_results

\* C7 (as stated, read on the runs in which no hook invocation fails): after
\* any failure of a task with stopOnFail = false, whatever the pipeline
\* raised, the task's error hook fires, no result is recorded for the task,
\* and the run goes on: the task's after hook fires and the next task of the
\* definition, or else the next definition, is reached.
C7_NonStopFailureContinues ==
    ~SomeHookRaised =>
        \A i \in DOMAIN events :
            (IsTaskFailure(i) /\ ~StopOnFail(events[i].d, events[i].t)) =>
                LET d == events[i].d
                    t == events[i].t
                IN  /\ t \notin DOMAIN ResultsOf(d)
                    /\ i < Len(events) => IsEvent(i + 1, "task:error", d, t)
                    /\ Terminated =>
                          /\ \E j \in DOMAIN events :
                                j > i /\ IsEvent(j, "task:after", d, t)
                          /\ t < Len(DefinitionAt(d).tasks) =>
                                \E j \in DOMAIN events :
                                    j > i /\ IsEvent(j, "task:before", d, t + 1)
                          /\ (t = Len(DefinitionAt(d).tasks) /\ d < defs_n) =>
                                \E j \in DOMAIN events :
                                    j > i /\ IsEvent(j, "parse", d + 1, 0)

\* ---------------------------------------------------------------------- C8

\* C8: once a task with stopOnFail = true has failed, the only events that
\* follow are that task's error hook, its definition's error hook and
\* backup:error: no later task of the definition and no task or hook of a
\* later definition is invoked; the definition is not recorded as complete,
\* the working directory is never renamed, no manifest is written, and the
\* run does not succeed.
C8_StopFailureAborts ==
    \A i \in DOMAIN events :
        IsStopFailure(i) =>
            LET d == events[i].d
                t == events[i].t
            IN  /\ \A j \in DOMAIN events :
                      j > i =>
                          \/ IsEvent(j, "task:error", d, t)
                          \/ IsEvent(j, "def:error", d, 0)
                          \/ IsEvent(j, "backup:error", 0, 0)
                /\ d \notin DOMAIN tasks_definitions_results
                /\ ~Renamed
                /\ pc \notin {"rename", "manifest", "unlink", "symlink",
                              "backup_after", "done"}
                /\ \A n \in Times : fs[n].manifest # <<>> => fs[n] = OldBackup
                /\ Terminated => Failed

\* A failed run of two definitions in which the first task of the first
\* definition, which has a second task, failed with stopOnFail = true.
C8_Witness ==
    /\ Failed
    /\ defs_n >= 2
    /\ \E i \in DOMAIN events :
          /\ IsStopFailure(i)
          /\ events[i].d = 1
          /\ events[i].t = 1
          /\ Len(DefinitionAt(1).tasks) >= 2

\* ---------------------------------------------------------------------- C9

\* The event i is the failure to parse a definition file.
IsParseError(i) ==
    i \in DOMAIN events /\ events[i].ev = "parse" /\ events[i].res = "raised"

EscapesRoot(d) ==
    /\ DefinitionAt(d).inside_folder # {}
    /\ \E s \in DefinitionAt(d).inside_folder :
          ~IsStrictSubpath(FinalBackupPath(s), TmpBackup)

\* C10 (as stated): for every inside value that does not resolve to a strict
\* subpath of the working root, _run_tasks raises before creating any
\* directory and before invoking any task, and no directory outside the
\* working root is ever created.
C10_ContainmentGuard ==
    /\ \A loc \in created :
          IsPrefixSeq(Resolved(TmpBackup), loc) /\ loc # Resolved(TmpBackup)
    /\ \A d \in ProcessedDefinitions :
          EscapesRoot(d) =>
              /\ EventsOf(TaskEvents, d) = {}
              /\ d = di
              /\ pc \in {"def_before", "def_env", "run_tasks", "def_except",
                         "main_except", "rmtree", "exit1", "crashed"}

\* ====================================================== secret resolution
\* _resolve_secret and _resolve_secrets, lines 125-177, computed on Python
\* values.  A string is a sequence of one-character strings, so that
\* startswith('#'), value[1:] and split('.') are computed.

\* The largest number of secret backends in the list `secrets`.
MaxBackends == 2

\* The largest number of keys of an environment mapping.
MaxEnvKeys == 2

\* ---------------------------------------------------------- Python values

\* A Python value: None, a str, a dict (its items in insertion order), or a
\* value of another type (an int, a Path), named by s.
PyNone == [kind |-> "none", s |-> <<>>, m |-> <<>>]

PyStr(s) == [kind |-> "str", s |-> s, m |-> <<>>]

PyOther(s) == [kind |-> "other", s |-> s, m |-> <<>>]

PyDict(items) == [kind |-> "dict", s |-> <<>>, m |-> items]

\* A local variable that no assignment has bound yet.
Unbound == [kind |-> "unbound", s |-> <<>>, m |-> <<>>]

\* One item of a dict.
Item(k, v) == [k |-> k, v |-> v]

\* key in d
ItemsHas(items, k) == \E i \in DOMAIN items : items[i].k = k

\* d[key]
ItemsGet(items, k) == items[CHOOSE i \in DOMAIN items : items[i].k = k].v

\* d[key] = v: a key the dict holds keeps its position.
ItemsPut(items, k, v) ==
    IF ItemsHas(items, k)
    THEN [i \in DOMAIN items |-> IF items[i].k = k THEN Item(k, v) ELSE items[i]]
    ELSE Append(items, Item(k, v))

\* The keys of a dict.
ItemsKeys(items) == {items[i].k : i \in DOMAIN items}

\* A mutant of Merge: a key that both dicts hold keeps the value of the first.
MergeKeepFirst(a, b) ==
    LET IsNew(it) == ~ItemsHas(a, it.k)
    IN  a \o SelectSeq(b, IsNew)

RECURSIVE Merge(_, _)
\* {**a, **b}
Merge(a, b) ==
    IF b = <<>> THEN a
    ELSE Merge(ItemsPut(a, b[1].k, b[1].v), Tail(b))

RECURSIVE SplitOn(_, _, _, _)
\* The pieces of s[i..] between the occurrences of sep, `cur` being the piece
\* read so far; empty pieces are kept.
SplitOn(s, sep, i, cur) ==
    IF i > Len(s) THEN <<cur>>
    ELSE IF s[i] = sep THEN <<cur>> \o SplitOn(s, sep, i + 1, <<>>)
    ELSE SplitOn(s, sep, i + 1, Append(cur, s[i]))

\* s.split(sep)
Split(s, sep) == SplitOn(s, sep, 1, <<>>)

\* What a call did: it returned `value`, or it raised.
Returned(v) == [raised |-> FALSE, value |-> v]

Raised == [raised |-> TRUE, value |-> PyNone]

\* --------------------------------------------------------- secret backends

\* backend.get_secret(key).  FileSecretsBackend builds Path(key), which
\* raises TypeError when key is not a str, and opens the file, which raises
\* FileNotFoundError when there is none; a backend of another type may
\* return None for a key it does not hold.
GetSecret(backend, key) ==
    IF key.kind # "str" THEN Raised
    ELSE IF ItemsHas(backend.store, key.s)
         THEN Returned(ItemsGet(backend.store, key.s))
    ELSE IF backend.missing = "raises" THEN Raised
    ELSE Returned(PyNone)

RECURSIVE Descend(_, _)
\* The while loop of lines 136-141: the value the key parts lead to in the
\* alias mapping, or found = FALSE (the function returns None).
Descend(value, key_parts) ==
    IF Len(key_parts) = 0 THEN [found |-> TRUE, value |-> value]
    ELSE IF value.kind = "dict" /\ ItemsHas(value.m, key_parts[1])
         THEN Descend(ItemsGet(value.m, key_parts[1]), Tail(key_parts))
    ELSE [found |-> FALSE, value |-> PyNone]

\* _resolve_secret(key_parts, secret), lines 125-143: what the call did, and
\* the arguments of the get_secret calls it made (none or one).
ResolveSecret(key_parts, secret) ==
    IF Len(key_parts) = 0
    THEN [raised |-> FALSE, value |-> PyNone, args |-> <<>>]
    ELSE LET d == Descend(PyDict(secret.env), key_parts)
         IN  IF ~d.found
             THEN [raised |-> FALSE, value |-> PyNone, args |-> <<>>]
             ELSE LET r == GetSecret(secret.backend, d.value)
                  IN  [raised |-> r.raised, value |-> r.value,
                       args |-> <<d.value>>]

\* One get_secret call of the history: the alias being resolved, the position
\* of the backend in `secrets` and the argument it was given.
Ask(alias, i, arg) == [alias |-> alias, secret |-> i, arg |-> arg]

RECURSIVE ForSecrets(_, _, _, _, _)
\* for secret in secrets: ..., lines 160-165, from the i-th backend on, for
\* the alias string `value`; nv is the local new_value.  broke: the loop
\* ended at line 165, after new_env[key] = new_value.
ForSecrets(value, secrets_, i, nv, log) ==
    IF i > Len(secrets_)
    THEN [raised |-> FALSE, new_value |-> nv, broke |-> FALSE, log |-> log]
    ELSE LET r == ResolveSecret(Split(Tail(value), "."), secrets_[i])
             log2 == log \o [n \in DOMAIN r.args |-> Ask(value, i, r.args[n])]
         IN  IF r.raised
             THEN [raised |-> TRUE, new_value |-> nv, broke |-> FALSE,
                   log |-> log2]
             ELSE IF r.value # PyNone
             THEN [raised |-> FALSE, new_value |-> r.value, broke |-> TRUE,
                   log |-> log2]
             ELSE ForSecrets(value, secrets_, i + 1, PyNone, log2)

RECURSIVE ResolveItems(_, _, _, _, _, _)
RECURSIVE ResolveSecrets(_, _)

\* for key, value in env.items(): ..., lines 156-175, from the i-th item on;
\* acc is new_env, nv the local new_value, log the get_secret calls so far.
ResolveItems(items, secrets_, i, acc, nv, log) ==
    IF i > Len(items)
    THEN [raised |-> FALSE, value |-> PyDict(acc), asked |-> log]
    ELSE LET key == items[i].k
             value == items[i].v
         IN  IF value.kind = "str" /\ StartsWith(value.s, <<"#">>)
             THEN LET f == ForSecrets(value.s, secrets_, 1, nv, log)
                      acc1 == IF f.broke THEN ItemsPut(acc, key, f.new_value)
                              ELSE acc
                      acc2 == IF f.new_value = PyNone
                              THEN ItemsPut(acc1, key, value)
                              ELSE acc1
                  IN  IF f.raised \/ f.new_value = Unbound
                      THEN [raised |-> TRUE, value |-> PyNone,
                            asked |-> f.log]
                      ELSE ResolveItems(items, secrets_, i + 1, acc2,
                                        f.new_value, f.log)
             ELSE IF value.kind = "dict"
             THEN LET r == ResolveSecrets(value, secrets_)
                  IN  IF r.raised
                      THEN [raised |-> TRUE, value |-> PyNone,
                            asked |-> log \o r.asked]
                      ELSE ResolveItems(items, secrets_, i + 1,
                                        ItemsPut(acc, key, r.value), nv,
                                        log \o r.asked)
             ELSE ResolveItems(items, secrets_, i + 1,
                               ItemsPut(acc, key, value), nv, log)

\* _resolve_secrets(env, secrets), lines 146-177: what the call did and the
\* get_secret calls it made.  new_value is read at line 167 although the
\* loop of line 160 binds it only when `secrets` is not empty.
ResolveSecrets(env_, secrets_) ==
    IF env_.kind # "dict"
    THEN [raised |-> FALSE, value |-> env_, asked |-> <<>>]
    ELSE ResolveItems(env_.m, secrets_, 1, <<>>, Unbound, <<>>)

\* ------------------------------------------------- a call of _resolve_secrets

\* The variables of a run of main_backup.
runVars ==
    << pc, fs, current, created, prev_backup, defs_n, di, tasks, ti,
       final_backup_path, tasks_results, tasks_definitions_results, exc,
       backup, events, preCurrent >>

\* No run of main_backup is being modelled.
RunIdle ==
    /\ pc = "idle"
    /\ fs = [n \in DirNames |-> NoDir]
    /\ current = {}
    /\ preCurrent = {}
    /\ created = {}
    /\ prev_backup = {}
    /\ defs_n = 0
    /\ di = 0
    /\ tasks = <<>>
    /\ ti = 0
    /\ final_backup_path = TmpBackup
    /\ tasks_results = EmptyDict
    /\ tasks_definitions_results = <<>>
    /\ exc = "none"
    /\ backup = {}
    /\ events = <<>>

\* The alias strings the model draws from: "#a", "#a.b" and "#c".
AliasStrings ==
    { <<"#", "a">>, <<"#", "a", ".", "b">>, <<"#", "c">> }

\* The values that are not mappings: the aliases, the plain string "v" and
\* the int 1.
LeafValues ==
    {PyStr(a) : a \in AliasStrings} \cup {PyStr(<<"v">>), PyOther(<<"1">>)}

\* The nested mappings: {N: "#a"} and {N: "#c"}.
NestedValues ==
    {PyDict(<<Item("N", PyStr(a))>>) : a \in {<<"#", "a">>, <<"#", "c">>}}

EnvValues == LeafValues \cup NestedValues

EnvKeys == {"A", "B"}

\* The dicts of at most n items with keys in K and values in V, as the
\* sequences of their items.
ItemSeqs(K, V, n) ==
    {q \in UNION {[1..k -> [k : K, v : V]] : k \in 0..n} :
        \A i, j \in DOMAIN q : i # j => q[i].k # q[j].k}

\* The arguments of _resolve_secrets: a mapping, or the parameters of an
\* action that are not one (line 54).
Envs ==
    {PyDict(q) : q \in ItemSeqs(EnvKeys, EnvValues, MaxEnvKeys)}
        \cup {PyNone, PyStr(<<"#", "a">>)}

\* SecretConfig(type, env, backend): the alias mapping of the backend and
\* the secrets it holds.
SecretConfig(type, aliases, store) ==
    [type |-> type,
     env |-> aliases,
     backend |-> [store |-> store,
                  missing |-> IF type = "file" THEN "raises" ELSE "none"]]

\* A backend with the alias a: k that holds the secret k = "s".
BackendHolding ==
    SecretConfig("vault", <<Item(<<"a">>, PyStr(<<"k">>))>>,
                 <<Item(<<"k">>, PyStr(<<"s">>))>>)

\* A backend with the alias a: k that holds nothing and returns None.
BackendEmpty ==
    SecretConfig("vault", <<Item(<<"a">>, PyStr(<<"k">>))>>, <<>>)

\* A backend with the nested alias a: {b: k} that holds k = "t".
BackendNested ==
    SecretConfig("vault",
                 <<Item(<<"a">>, PyDict(<<Item(<<"b">>, PyStr(<<"k">>))>>))>>,
                 <<Item(<<"k">>, PyStr(<<"t">>))>>)

\* A backend with the alias c: k that holds k = "#a", a secret that begins
\* with '#'.
BackendHash ==
    SecretConfig("vault", <<Item(<<"c">>, PyStr(<<"k">>))>>,
                 <<Item(<<"k">>, PyStr(<<"#", "a">>))>>)

\* A file backend with the alias a: k whose file k does not exist.
BackendFile ==
    SecretConfig("file", <<Item(<<"a">>, PyStr(<<"k">>))>>, <<>>)

\* The backends the model draws from.
SecretConfigs ==
    {BackendHolding, BackendEmpty, BackendNested, BackendHash, BackendFile}

\* The lists of secret backends.
SecretLists == UNION {[1..k -> SecretConfigs] : k \in 0..MaxBackends}

InitSecrets ==
    /\ RunIdle
    /\ EnvIdle
    /\ DefsIdle
    /\ TwoIdle
    /\ env \in Envs
    /\ secrets \in SecretLists
    /\ new_env = <<>>
    /\ asked = <<>>

\* new_env = _resolve_secrets(env, secrets)
CallResolveSecrets ==
    /\ new_env = <<>>
    /\ LET r == ResolveSecrets(env, secrets)
       IN  /\ new_env' = <<[raised |-> r.raised, value |-> r.value]>>
           /\ asked' = r.asked
    /\ UNCHANGED << env, secrets, runVars, envVars, defsVars,
                    twoVars >>

NextSecrets == CallResolveSecrets

SpecSecrets == InitSecrets /\ [][NextSecrets]_vars

\* ================================================ the environment of a task
\* The environment of one task from main_backup to run_task_actions: lines
\* 228, 247 and 100-109, and _inject_resolved_env_into_actions, lines 41-65.

RECURSIVE InjectFrom(_, _, _, _, _)
RECURSIVE InjectAction(_, _, _, _, _, _)
RECURSIVE InjectMerged(_, _, _, _, _, _)

\* for it in actions: ..., lines 52-63, from the i-th action on; acc is
\* new_actions.  An action {kind: params} is the item (kind, params).
InjectFrom(actions_, i, resolved, secrets_, acc) ==
    IF i > Len(actions_) THEN Returned(acc)
    ELSE InjectAction(actions_, i, resolved, secrets_, acc,
                      ResolveSecrets(actions_[i].v, secrets_))

\* Lines 54-63 for the i-th action, resolved_value being what the call of
\* line 54 did.
InjectAction(actions_, i, resolved, secrets_, acc, resolved_value) ==
    IF resolved_value.raised THEN Raised
    ELSE IF actions_[i].v.kind = "dict"
    THEN InjectMerged(actions_, i, resolved, secrets_, acc,
                      ResolveSecrets(
                          PyDict(Merge(resolved.m, resolved_value.value.m)),
                          secrets_))
    ELSE InjectFrom(actions_, i + 1, resolved, secrets_,
                    Append(acc, Item(actions_[i].k, actions_[i].v)))

\* Lines 60-61 for the i-th action, new_value being what the call of line 60
\* did.
InjectMerged(actions_, i, resolved, secrets_, acc, new_value) ==
    IF new_value.raised THEN Raised
    ELSE InjectFrom(actions_, i + 1, resolved, secrets_,
                    Append(acc, Item(actions_[i].k, new_value.value)))

\* A mutant of InjectResolvedEnvIntoActions: the actions whose parameters are
\* not a mapping are left out of the new list.
InjectMappingsOnly(actions_, env_, secrets_) ==
    LET resolved_env_ == ResolveSecrets(env_, secrets_)
        IsMapping(it) == it.v.kind = "dict"
    IN  IF resolved_env_.raised THEN Raised
        ELSE InjectFrom(SelectSeq(actions_, IsMapping), 1,
                        resolved_env_.value, secrets_, <<>>)

\* _inject_resolved_env_into_actions(actions, env, secrets), lines 41-65
InjectResolvedEnvIntoActions(actions_, env_, secrets_) ==
    LET resolved_env_ == ResolveSecrets(env_, secrets_)
    IN  IF resolved_env_.raised THEN Raised
        ELSE InjectFrom(actions_, 1, resolved_env_.value, secrets_, <<>>)

\* The largest number of actions of a task.
MaxActions == 2

RECURSIVE OptItems(_)
\* The dicts that hold, for each (key, values) of `choices` and in their
\* order, either no item or the key with one of the values.
OptItems(choices) ==
    IF choices = <<>> THEN {<<>>}
    ELSE LET rest == OptItems(Tail(choices))
         IN  rest \cup {<<Item(choices[1].k, v)>> \o r :
                            v \in choices[1].vs, r \in rest}

\* config.env: {}, {A: "1"} or {A: "#c"}.
GlobalEnvs ==
    OptItems(<< [k |-> "A", vs |-> {PyStr(<<"1">>), PyStr(<<"#", "c">>)}] >>)

\* tasks.env: A absent or "2", B absent, "3" or "#a".
TasksEnvs ==
    OptItems(<< [k |-> "A", vs |-> {PyStr(<<"2">>)}],
                [k |-> "B", vs |-> {PyStr(<<"3">>), PyStr(<<"#", "a">>)}] >>)

\* task.env: B absent or "4", C absent, "5" or "#a".
TaskEnvs ==
    OptItems(<< [k |-> "B", vs |-> {PyStr(<<"4">>)}],
                [k |-> "C", vs |-> {PyStr(<<"5">>), PyStr(<<"#", "a">>)}] >>)

\* The parameters of an action: absent, the scalar "#a", {}, {B: "p"} or
\* {P: "#a"}.
ActionParams ==
    { PyNone,
      PyStr(<<"#", "a">>),
      PyDict(<<>>),
      PyDict(<<Item("B", PyStr(<<"p">>))>>),
      PyDict(<<Item("P", PyStr(<<"#", "a">>))>>) }

ActionKinds == {"k1", "k2"}

\* task.actions: at most MaxActions actions of distinct kinds.
ActionLists ==
    {q \in UNION {[1..k -> [k : ActionKinds, v : ActionParams]] :
                     k \in 0..MaxActions} :
        \A i, j \in DOMAIN q : i # j => q[i].k # q[j].k}

\* config.secrets
ConfigSecrets ==
    { <<>>, <<BackendHolding>>, <<BackendHash, BackendHolding>>,
      <<BackendFile>> }

\* '_backup_path': final_backup_path, a Path
BackupPathValue == PyOther(Str(TmpBackup))

\* '_prev_backup_path': prev_backup_path, None when there is no current
PrevBackupPathValue == PyNone

\* {**env, **task.env, '_backup_path': ..., '_prev_backup_path': ...}, lines
\* 101-106
TaskEnv(env_, task_env) ==
    ItemsPut(ItemsPut(Merge(env_, task_env),
                      "_backup_path", BackupPathValue),
             "_prev_backup_path", PrevBackupPathValue)

InitEnv ==
    /\ RunIdle
    /\ SecretsIdle
    /\ DefsIdle
    /\ TwoIdle
    /\ \E g \in GlobalEnvs, s \in ConfigSecrets :
          config = [env |-> PyDict(g), secrets |-> s]
    /\ \E d \in TasksEnvs : tasks_env = PyDict(d)
    /\ \E t \in TaskEnvs, a \in ActionLists :
          this_task = [env |-> PyDict(t), actions |-> a]
    /\ resolved_env = <<>>
    /\ resolved_tasks_env = <<>>
    /\ actions = <<>>
    /\ invoked = <<>>
    /\ fired = <<>>
    /\ epc = "resolve_env"

\* resolved_env = _resolve_secrets(env, secrets), line 228
ResolveEnv ==
    /\ epc = "resolve_env"
    /\ LET r == ResolveSecrets(config.env, config.secrets)
       IN  IF r.raised
           THEN epc' = "raised_env" /\ UNCHANGED resolved_env
           ELSE epc' = "resolve_tasks_env" /\ resolved_env' = <<r.value>>
    /\ UNCHANGED << config, tasks_env, this_task, resolved_tasks_env,
                    actions, invoked, fired, runVars, secretsVars,
                    defsVars, twoVars >>

\* resolved_tasks_env = _resolve_secrets({**resolved_env, **tasks.env},
\* secrets), line 247
ResolveDefinitionEnv ==
    /\ epc = "resolve_tasks_env"
    /\ LET r == ResolveSecrets(PyDict(Merge(resolved_env[1].m, tasks_env.m)),
                               config.secrets)
       IN  IF r.raised
           THEN epc' = "raised_tasks_env" /\ UNCHANGED resolved_tasks_env
           ELSE epc' = "task_before" /\ resolved_tasks_env' = <<r.value>>
    /\ UNCHANGED << config, tasks_env, this_task, resolved_env, actions,
                    invoked, fired, runVars, secretsVars,
                    defsVars, twoVars >>

\* run_hook(f'...:task:{task.name}:before', ...), line 97
FireTaskBefore ==
    /\ epc = "task_before"
    /\ \E res \in HookResults :
          /\ fired' = <<res>>
          /\ epc' = IF res = "ok" THEN "inject" ELSE "raised_hook"
    /\ UNCHANGED << config, tasks_env, this_task, resolved_env,
                    resolved_tasks_env, actions, invoked, runVars,
                    secretsVars, defsVars, twoVars >>

\* actions = _inject_resolved_env_into_actions(task.actions, {...}, secrets),
\* lines 100-107: an exception is caught at line 110, before line 109.
InjectActions ==
    /\ epc = "inject"
    /\ LET r == InjectResolvedEnvIntoActions(
                    this_task.actions,
                    PyDict(TaskEnv(resolved_tasks_env[1].m, this_task.env.m)),
                    config.secrets)
       IN  IF r.raised
           THEN epc' = "raised_inject" /\ UNCHANGED actions
           ELSE epc' = "invoke" /\ actions' = <<r.value>>
    /\ UNCHANGED << config, tasks_env, this_task, resolved_env,
                    resolved_tasks_env, invoked, fired, runVars,
                    secretsVars, defsVars, twoVars >>

\* run_task_actions(task.name, actions), line 109
InvokePipeline ==
    /\ epc = "invoke"
    /\ invoked' = Append(invoked, actions[1])
    /\ epc' = "done"
    /\ UNCHANGED << config, tasks_env, this_task, resolved_env,
                    resolved_tasks_env, actions, fired, runVars,
                    secretsVars, defsVars, twoVars >>

NextEnv ==
    \/ ResolveEnv
    \/ ResolveDefinitionEnv
    \/ FireTaskBefore
    \/ InjectActions
    \/ InvokePipeline

SpecEnv == InitEnv /\ [][NextEnv]_vars

\* --------------------------------------------------------------------- C11

\* The items of a dict, whatever their order.
ItemSet(items) == {items[i] : i \in DOMAIN items}

RECURSIVE ResolveTimes(_, _, _)
\* The value v of the key k after n passes of secret resolution.
ResolveTimes(k, v, n) ==
    IF n = 0 THEN v
    ELSE ResolveTimes(
             k,
             ItemsGet(ResolveSecrets(PyDict(<<Item(k, v)>>),
                                     config.secrets).value.m, k),
             n - 1)

\* The keys of the global, definition and task environments.
ScopedKeys ==
    ItemsKeys(config.env.m) \cup ItemsKeys(tasks_env.m)
        \cup ItemsKeys(this_task.env.m)

\* The value of the key k of the environment: that of the task if the task
\* sets k, else that of the definition if it sets k, else the global one,
\* after the resolution passes it goes through from its scope on (lines 228,
\* 247, 50 and 60).
ScopedValue(k) ==
    IF ItemsHas(this_task.env.m, k)
    THEN ResolveTimes(k, ItemsGet(this_task.env.m, k), 2)
    ELSE IF ItemsHas(tasks_env.m, k)
    THEN ResolveTimes(k, ItemsGet(tasks_env.m, k), 3)
    ELSE ResolveTimes(k, ItemsGet(config.env.m, k), 4)

\* The parameters an action received show the environment of its task,
\* except for the keys that the action's own parameters set.
SeesEnvironment(declared, received) ==
    /\ received.kind = "dict"
    /\ \A k \in ScopedKeys :
          (declared.kind = "dict" => ~ItemsHas(declared.m, k)) =>
              /\ ItemsHas(received.m, k)
              /\ ItemsGet(received.m, k) = ScopedValue(k)

NoBackendResolves(alias) ==
    \A i \in DOMAIN secrets :
        LET r == ResolveSecret(Split(Tail(alias), "."), secrets[i])
        IN  ~r.raised /\ r.value = PyNone

\* No get_secret call of the history raised.
NoBackendRaised ==
    \A n \in DOMAIN asked :
        ~GetSecret(secrets[asked[n].secret].backend, asked[n].arg).raised

\* The value is a string that begins with '#'.
IsAlias(v) == v.kind = "str" /\ StartsWith(v.s, <<"#">>)

\* C12 (as stated, read on the calls in which no backend raises): for every
\* environment and every backend list, the empty list included,
\* _resolve_secrets does not fail, its output has exactly the keys of its
\* input, and each '#'-prefixed value that no backend resolves is in the
\* output under the same key with its original literal string.
C12_UnresolvedPassthrough ==
    (new_env # <<>> /\ env.kind = "dict" /\ NoBackendRaised) =>
        /\ ~new_env[1].raised
        /\ new_env[1].value.kind = "dict"
        /\ ItemsKeys(new_env[1].value.m) = ItemsKeys(env.m)
        /\ \A k \in ItemsKeys(env.m) :
              (IsAlias(ItemsGet(env.m, k))
                  /\ NoBackendResolves(ItemsGet(env.m, k).s))
                 => ItemsGet(new_env[1].value.m, k) = ItemsGet(env.m, k)


\* ------------------------------------------------------------------------
\* The tasks folder: _get_tasks_definitions (lines 29-38) and the loop over
\* its result (lines 236-255).  A file name is a sequence of characters.

\* The most entries the tasks folder holds.
MaxEntries == 3

\* ord(c) of the characters the file names are made of.
CodePoint(c) ==
    CASE c = "." -> 46
      [] c = "a" -> 97
      [] c = "b" -> 98
      [] c = "c" -> 99
      [] c = "j" -> 106
      [] c = "l" -> 108
      [] c = "m" -> 109
      [] c = "n" -> 110
      [] c = "o" -> 111
      [] c = "s" -> 115
      [] c = "t" -> 116
      [] c = "x" -> 120
      [] c = "y" -> 121

RECURSIVE StrLess(_, _)
\* a < b of two Python strings: the paths of one folder compare as their
\* names do.
StrLess(a, b) ==
    IF b = <<>> THEN FALSE
    ELSE IF a = <<>> THEN TRUE
    ELSE IF a[1] = b[1] THEN StrLess(Tail(a), Tail(b))
    ELSE CodePoint(a[1]) < CodePoint(b[1])

\* The names x.name.split('.')[-1] is looked up in, line 36.
DefinitionSuffixes ==
    { <<"j", "s", "o", "n">>, <<"y", "a", "m", "l">>, <<"y", "m", "l">> }

\* x.name.split('.')[-1], line 36
LastPiece(name) ==
    LET pieces == Split(name, ".") IN pieces[Len(pieces)]

\* The condition of the comprehension of line 36.
IsDefinition(x) == x.is_file /\ LastPiece(x.name) \in DefinitionSuffixes

RECURSIVE SelectDefinitions(_)
\* The comprehension of line 36: the entries kept, in enumeration order.
SelectDefinitions(entries) ==
    IF entries = <<>> THEN <<>>
    ELSE IF IsDefinition(entries[1])
         THEN <<entries[1].name>> \o SelectDefinitions(Tail(entries))
         ELSE SelectDefinitions(Tail(entries))

RECURSIVE InsertSorted(_, _)
\* The sorted list with one more name put in its place.
InsertSorted(name, sorted) ==
    IF sorted = <<>> THEN <<name>>
    ELSE IF StrLess(name, sorted[1]) THEN <<name>> \o sorted
    ELSE <<sorted[1]>> \o InsertSorted(name, Tail(sorted))

RECURSIVE Sort(_)
\* definitions.sort(), line 37
Sort(names) ==
    IF names = <<>> THEN <<>>
    ELSE InsertSorted(names[1], Sort(Tail(names)))

\* _get_tasks_definitions, lines 36-38
TasksDefinitions(entries) == Sort(SelectDefinitions(entries))

\* A file or a folder of the tasks folder.
Entry(name, is_file) == [name |-> name, is_file |-> is_file]

\* The entries a tasks folder is made of: definitions, a file that is not
\* one, files named as a suffix is, and a folder named as a definition is.
EntryPool ==
    { Entry(<<"a", ".", "y", "m", "l">>, TRUE),
      Entry(<<"b", ".", "j", "s", "o", "n">>, TRUE),
      Entry(<<"b", ".", "y", "a", "m", "l">>, TRUE),
      Entry(<<"a", ".", "b", ".", "y", "m", "l">>, TRUE),
      Entry(<<"c", ".", "t", "x", "t">>, TRUE),
      Entry(<<"y", "m", "l">>, TRUE),
      Entry(<<"c", ".", "y", "m", "l">>, FALSE) }

\* The enumerations of a folder: up to MaxEntries entries of the pool, each
\* name once, in any order.
Enumerations ==
    { s \in UNION { [1..n -> EntryPool] : n \in 0..MaxEntries } :
        \A i, j \in DOMAIN s : i # j => s[i] # s[j] }

\* A record of the history: what happened and for which file.
DefEvent(ev, file) == [ev |-> ev, file |-> file]

InitDefs ==
    /\ RunIdle
    /\ SecretsIdle
    /\ EnvIdle
    /\ TwoIdle
    /\ iterdir \in Enumerations
    /\ definitions = <<>>
    /\ dpos = 0
    /\ dlog = <<>>
    /\ dpc = "list"

\* _get_tasks_definitions(config_path), line 236
ListDefinitions ==
    /\ dpc = "list"
    /\ definitions' = <<TasksDefinitions(iterdir)>>
    /\ dpos' = 1
    /\ dpc' = IF TasksDefinitions(iterdir) = <<>> THEN "end" ELSE "before"
    /\ UNCHANGED << iterdir, dlog, runVars, secretsVars, envVars,
                    twoVars >>

\* Tasks(tasks_definition) and the hook of line 245
DefinitionBefore ==
    /\ dpc = "before"
    /\ dlog' = Append(dlog, DefEvent("before", definitions[1][dpos]))
    /\ dpc' = "tasks"
    /\ UNCHANGED << iterdir, definitions, dpos, runVars, secretsVars,
                    envVars, twoVars >>

\* _run_tasks(...), line 248: it returns or raises
DefinitionTasks ==
    /\ dpc = "tasks"
    /\ dlog' = Append(dlog, DefEvent("task", definitions[1][dpos]))
    /\ \E failed \in BOOLEAN : dpc' = IF failed THEN "error" ELSE "after"
    /\ UNCHANGED << iterdir, definitions, dpos, runVars, secretsVars,
                    envVars, twoVars >>

\* The hook of line 252 and the raise of line 253: the loop is left.
DefinitionError ==
    /\ dpc = "error"
    /\ dlog' = Append(dlog, DefEvent("error", definitions[1][dpos]))
    /\ dpc' = "raised"
    /\ UNCHANGED << iterdir, definitions, dpos, runVars, secretsVars,
                    envVars, twoVars >>

\* The hook of line 255, then the next file of the list, if any.
DefinitionAfter ==
    /\ dpc = "after"
    /\ dlog' = Append(dlog, DefEvent("after", definitions[1][dpos]))
    /\ dpos' = dpos + 1
    /\ dpc' = IF dpos = Len(definitions[1]) THEN "end" ELSE "before"
    /\ UNCHANGED << iterdir, definitions, runVars, secretsVars, envVars,
                    twoVars >>

NextDefs ==
    \/ ListDefinitions
    \/ DefinitionBefore
    \/ DefinitionTasks
    \/ DefinitionError
    \/ DefinitionAfter

SpecDefs == InitDefs /\ [][NextDefs]_vars

\* --------------------------------------------------------------------- C13

\* The name has an extension and it is one of json, yaml, yml.
HasRecognisedExtension(name) ==
    /\ Len(Split(name, ".")) >= 2
    /\ LastPiece(name) \in DefinitionSuffixes

\* The files of the folder that have a recognised extension.
RecognisedFiles ==
    { iterdir[i].name : i \in { j \in DOMAIN iterdir :
        iterdir[j].is_file /\ HasRecognisedExtension(iterdir[j].name) } }

\* The history goes through the files in ascending order of their names,
\* one file after the other.
AscendingOrder ==
    \A i, j \in DOMAIN dlog :
        i < j => \/ dlog[i].file = dlog[j].file
                 \/ StrLess(dlog[i].file, dlog[j].file)

\* Only files with a recognised extension are in the history.
OnlyRecognised == \A i \in DOMAIN dlog : dlog[i].file \in RecognisedFiles

\* The list of definitions holds the recognised files, each once, in
\* ascending order, whatever the order of enumeration was.
ListedInOrder ==
    definitions # <<>> =>
        /\ { definitions[1][i] : i \in DOMAIN definitions[1] }
               = RecognisedFiles
        /\ \A i, j \in DOMAIN definitions[1] :
               i < j => StrLess(definitions[1][i], definitions[1][j])

\* C13: definitions are processed one after the other in ascending
\* lexicographic order of their file names, independent of the order in
\* which the folder is enumerated, and only files with a recognised
\* extension (json, yaml, yml) are processed.
C13_DefinitionsOrder ==
    /\ ListedInOrder
    /\ AscendingOrder
    /\ OnlyRecognised

\* --------------------------------------------------------------------- C14

\* The number of times the hook `ev` has fired.
TimesFired(ev) == Cardinality({ i \in DOMAIN events : events[i].ev = ev })

\* C14: whichever step of a run fails (before .partial is created, while
\* the definitions run, or during sealing after .partial has been renamed),
\* backup:error fires exactly once, the cleanup does not fail, no .partial
\* directory remains and the run ends with the failure exit status.  It is
\* stated of the runs in which no hook fails, so that it does not rest on
\* what a failing backup:error hook does (C1).
C14_FailureHandlingCompletes ==
    (Failed /\ ~SomeHookRaised)
        => /\ TimesFired("backup:error") = 1
           /\ pc = "exit1"
           /\ ~fs[PartialName].exists

\* --------------------------------------------------------------------- C15

\* The loop of line 236 has ended: every definition file has been run and
\* none has raised (each task succeeded, or failed with stopOnFail = false).
AllDefinitionsCompleted == di > defs_n

\* C15: Failed is not reachable from Sealing: a run in which all definitions
\* complete does not fail, and when it has terminated it has renamed the
\* working directory, written the manifest and updated current, and its
\* outcome is success.  It is stated of the runs in which no hook fails.
C15_SealingNeverFails ==
    (AllDefinitionsCompleted /\ ~SomeHookRaised)
        => /\ ~Failed
           /\ pc # "main_except"
           /\ Terminated => /\ Succeeded
                            /\ ManifestWritten
                            /\ current = backup

\* --------------------------------------------------------------------- C16

\* C16: the replacement of current is atomic: when current existed before
\* the run, in every state of the run current exists and points either at
\* its pre-run target or at the directory the run has sealed; in no state
\* is current absent.
C16_AtomicAliasReplacement ==
    preCurrent # {} =>
        /\ current # {}
        /\ current = preCurrent \/ current = backup

\* --------------------------------------------------------------------- C17

\* What the alias mapping of the p-th backend makes of the alias string.
AliasTarget(alias, p) ==
    Descend(PyDict(secrets[p].env), Split(Tail(alias), "."))

\* The alias mapping of the p-th backend resolves the full dotted path of
\* the alias to a key.
ResolvesToKey(alias, p) ==
    AliasTarget(alias, p).found /\ AliasTarget(alias, p).value.kind = "str"

\* The p-th backend holds a secret for the alias: asked for the key, it
\* returns a value that is not absent.
Supplies(alias, p) ==
    /\ ResolvesToKey(alias, p)
    /\ LET r == GetSecret(secrets[p].backend, AliasTarget(alias, p).value)
       IN  ~r.raised /\ r.value # PyNone

\* The secret the p-th backend returns for the alias.
SecretOf(alias, p) ==
    GetSecret(secrets[p].backend, AliasTarget(alias, p).value).value

\* A backend is asked only for the key its alias mapping resolves the alias
\* to.
OnlyKeysAsked ==
    \A i \in DOMAIN asked :
        /\ ResolvesToKey(asked[i].alias, asked[i].secret)
        /\ asked[i].arg = AliasTarget(asked[i].alias, asked[i].secret).value

\* The backends are asked in declaration order: an alias is put to an
\* earlier backend again only once a backend has supplied its value or all
\* the backends that resolve it have been asked.
AskedInOrder ==
    \A i \in DOMAIN asked :
        (/\ i + 1 \in DOMAIN asked
         /\ asked[i + 1].alias = asked[i].alias
         /\ asked[i + 1].secret <= asked[i].secret)
            => \/ Supplies(asked[i].alias, asked[i].secret)
               \/ \A p \in DOMAIN secrets :
                      p > asked[i].secret => ~ResolvesToKey(asked[i].alias, p)

\* No backend declared after one that supplies the value is asked, and
\* every backend that resolves the alias and is declared before the first
\* one that supplies the value is asked.
NoneAskedAfterSupplier ==
    \A i \in DOMAIN asked :
        \A p \in DOMAIN secrets :
            p < asked[i].secret
                => /\ ~Supplies(asked[i].alias, p)
                   /\ ResolvesToKey(asked[i].alias, p)
                          => \E j \in DOMAIN asked :
                                /\ asked[j].alias = asked[i].alias
                                /\ asked[j].secret = p

\* The value the key k of the mapping `after` has when the mapping `before`
\* holds an alias for it: the secret of the earliest backend that supplies
\* one, if there is such a backend.
EarliestWins(before, after) ==
    \A n \in DOMAIN before :
        LET v == before[n].v
        IN  (IsAlias(v) /\ \E p \in DOMAIN secrets : Supplies(v.s, p))
                => LET first == CHOOSE p \in DOMAIN secrets :
                                   /\ Supplies(v.s, p)
                                   /\ \A q \in DOMAIN secrets :
                                          Supplies(v.s, q) => p <= q
                   IN  ItemsGet(after, before[n].k) = SecretOf(v.s, first)

\* C17: for every alias the backends are consulted in declaration order; a
\* backend is asked for a secret only if its alias mapping resolves the
\* full dotted path to a key; the value used is the result, not absent, of
\* the earliest such backend; no backend declared after the one that
\* supplied the value is asked.
C17_BackendPrecedence ==
    new_env # <<>> =>
        /\ OnlyKeysAsked
        /\ AskedInOrder
        /\ NoneAskedAfterSupplier
        /\ (~new_env[1].raised /\ env.kind = "dict")
              => /\ EarliestWins(env.m, new_env[1].value.m)
                 /\ \A n \in DOMAIN env.m :
                        env.m[n].v.kind = "dict"
                            => EarliestWins(env.m[n].v.m,
                                   ItemsGet(new_env[1].value.m, env.m[n].k).m)

\* --------------------------------------------------------------------- C18

\* The list `handed` has the length of the declared list and the same kind
\* of action at every position.
SameKinds(handed, declared) ==
    /\ Len(handed) = Len(declared)
    /\ \A i \in DOMAIN declared : handed[i].k = declared[i].k

\* The way from the task's before hook to the pipeline has ended.
TaskEnded == epc \in {"done", "raised_hook", "raised_inject"}

\* C18 (as stated, read of the tasks whose before hook fired and returned):
\* the list handed to run_task_actions has the length and the kinds of the
\* declared list, and the pipeline is invoked exactly once for every task
\* whose before hook fired.
C18_ActionOrderPreserved ==
    /\ \A i \in DOMAIN invoked : SameKinds(invoked[i], this_task.actions)
    /\ (TaskEnded /\ fired = <<"ok">>) => Len(invoked) = 1

\* C18 (amended): the list handed to run_task_actions has the length and
\* the kinds of the declared list; the pipeline is invoked at most once, and
\* only after the before hook has returned; it is invoked exactly once when
\* _inject_resolved_env_into_actions has returned, and not at all when the
\* hook or the injection has raised.
C18_InvokedOnceUnlessInjectRaises ==
    /\ \A i \in DOMAIN invoked : SameKinds(invoked[i], this_task.actions)
    /\ actions # <<>> => SameKinds(actions[1], this_task.actions)
    /\ Len(invoked) <= 1
    /\ invoked # <<>> => fired = <<"ok">> /\ invoked = actions
    /\ epc = "done" => Len(invoked) = 1
    /\ epc \in {"raised_hook", "raised_inject"} => invoked = <<>>
    /\ (TaskEnded /\ fired = <<"ok">>)
          => (Len(invoked) = 1 <=> actions # <<>>)

\* A task with two actions, the first with no parameters and the second
\* with a mapping, has been handed to the pipeline with its environment.
C18_Witness ==
    /\ epc = "done"
    /\ Len(this_task.actions) = 2
    /\ this_task.actions[1].v = PyNone
    /\ this_task.actions[2].v.kind = "dict"
    /\ Len(invoked) = 1
    /\ invoked[1][1].k = this_task.actions[1].k
    /\ invoked[1][2].k = this_task.actions[2].k
    /\ ItemsHas(invoked[1][2].v.m, "_backup_path")

\* ============================================ two runs on one backups root
\* Two runs of main_backup against the same backups root.  Each run goes
\* through the steps of _do_backup that touch what the runs share: the
\* .partial directory (lines 233, 248, 259, 288), the timestamped
\* directories (259, 262) and the current symlink (266, 267).  Every task
\* has stopOnFail = true.  SpecTwo lets the steps of the two runs interleave
\* in any way; SpecSeq lets a run start only when the other one has not
\* started or has ended.

Runs == {1, 2}

\* No .partial directory.
NoPartial == [exists |-> FALSE, files |-> {}]

\* No directory for a minute.
NoSealed == [exists |-> FALSE, files |-> {}, manifest |-> FALSE, by |-> 0]

\* A mutant of MkdirExistOk: no directory is created.
MkdirNothing(dir) == dir

\* tmp_backup.mkdir(exist_ok=True, parents=True), line 233: a directory that
\* exists is kept with what it holds.
MkdirExistOk(dir) == [dir EXCEPT !.exists = TRUE]

\* tmp_backup.rename(backup), line 259, raises when there is no .partial or
\* when the target is a directory that is not empty.
RenameRaisesOnto(minute) ==
    \/ ~partial.exists
    \/ /\ sealed[minute].exists
       /\ (sealed[minute].files # {} \/ sealed[minute].manifest)

\* The run has ended.
Ended(r) == pcs[r] \in {"done", "exit1", "crashed"}

\* The run is executing the tasks of its definitions.
InTasks(r) == pcs[r] = "task"

InitTwo ==
    /\ RunIdle
    /\ SecretsIdle
    /\ EnvIdle
    /\ DefsIdle
    /\ pcs = [r \in Runs |-> "start"]
    /\ ntasks \in [Runs -> 0..MaxTasks]
    /\ tdone = [r \in Runs |-> 0]
    /\ partial = NoPartial
    /\ sealed = [m \in Times |-> NoSealed]
    /\ mine = [r \in Runs |-> 0]
    /\ curlink = {}
    /\ taken = 0

\* tmp_backup.mkdir(exist_ok=True, parents=True), line 233, then the loop of
\* line 236.
RunMkdir(r) ==
    /\ pcs[r] = "start"
    /\ partial' = MkdirExistOk(partial)
    /\ taken' = IF partial.exists THEN taken ELSE 0
    /\ pcs' = [pcs EXCEPT ![r] = IF ntasks[r] = 0 THEN "rename" ELSE "task"]
    /\ UNCHANGED << ntasks, tdone, sealed, mine, curlink, runVars,
                    secretsVars, envVars, defsVars >>

\* run_task_actions(task.name, actions), line 109: the pipeline writes its
\* output below .partial and returns, or it raises; it cannot write when
\* the directory is not there.  The failure is raised again (lines 118, 253).
RunTask(r) ==
    /\ pcs[r] = "task"
    /\ \E res \in PipelineResults :
          IF res = "ok" /\ partial.exists
          THEN /\ partial' = [partial EXCEPT !.files = @ \cup {r}]
               /\ tdone' = [tdone EXCEPT ![r] = @ + 1]
               /\ pcs' = [pcs EXCEPT ![r] = IF tdone[r] + 1 = ntasks[r]
                                            THEN "rename" ELSE "task"]
          ELSE /\ pcs' = [pcs EXCEPT ![r] = "main_except"]
               /\ UNCHANGED << partial, tdone >>
    /\ UNCHANGED << ntasks, sealed, mine, curlink, taken, runVars,
                    secretsVars, envVars, defsVars >>

\* backup = _generate_backup_path(backups_folder); tmp_backup.rename(backup),
\* lines 257-259: the directory is renamed with all it holds.
RunRename(r) ==
    /\ pcs[r] = "rename"
    /\ \E minute \in Times :
          IF RenameRaisesOnto(minute)
          THEN /\ pcs' = [pcs EXCEPT ![r] = "main_except"]
               /\ UNCHANGED << partial, sealed, mine, taken >>
          ELSE /\ sealed' = [sealed EXCEPT ![minute] =
                                [exists |-> TRUE, files |-> partial.files,
                                 manifest |-> FALSE, by |-> r]]
               /\ partial' = NoPartial
               /\ mine' = [mine EXCEPT ![r] = minute]
               /\ taken' = r
               /\ pcs' = [pcs EXCEPT ![r] = "manifest"]
    /\ UNCHANGED << ntasks, tdone, curlink, runVars, secretsVars, envVars,
                    defsVars >>

\* _create_backup_manifest(backup, tasks_definitions_results), line 262
RunManifest(r) ==
    /\ pcs[r] = "manifest"
    /\ sealed' = [sealed EXCEPT ![mine[r]].manifest = TRUE]
    /\ pcs' = [pcs EXCEPT ![r] = "unlink"]
    /\ UNCHANGED << ntasks, tdone, partial, mine, curlink, taken, runVars,
                    secretsVars, envVars, defsVars >>

\* if current_backup.is_symlink(): current_backup.unlink(), lines 265-266
RunUnlink(r) ==
    /\ pcs[r] = "unlink"
    /\ curlink' = {}
    /\ pcs' = [pcs EXCEPT ![r] = "symlink"]
    /\ UNCHANGED << ntasks, tdone, partial, sealed, mine, taken, runVars,
                    secretsVars, envVars, defsVars >>

\* os.symlink(backup, current_backup), line 267, raises FileExistsError when
\* current exists; return backup, line 271.
RunSymlink(r) ==
    /\ pcs[r] = "symlink"
    /\ IF curlink # {}
       THEN /\ pcs' = [pcs EXCEPT ![r] = "main_except"]
            /\ UNCHANGED curlink
       ELSE /\ curlink' = {mine[r]}
            /\ pcs' = [pcs EXCEPT ![r] = "done"]
    /\ UNCHANGED << ntasks, tdone, partial, sealed, mine, taken, runVars,
                    secretsVars, envVars, defsVars >>

\* except Exception as e: run_hook('backup:error', ...), lines 285-287: a
\* failure of the hook leaves main_backup before line 288.
RunExcept(r) ==
    /\ pcs[r] = "main_except"
    /\ \E res \in HookResults :
          pcs' = [pcs EXCEPT ![r] = IF res = "ok" THEN "rmtree"
                                    ELSE "crashed"]
    /\ UNCHANGED << ntasks, tdone, partial, sealed, mine, curlink, taken,
                    runVars, secretsVars, envVars, defsVars >>

\* shutil.rmtree(str(config.backups_path / '.partial')); sys.exit(1), lines
\* 288-289: the directory is removed with all it holds; rmtree raises when
\* there is none.
RunRmtree(r) ==
    /\ pcs[r] = "rmtree"
    /\ IF partial.exists
       THEN /\ partial' = NoPartial
            /\ taken' = r
            /\ pcs' = [pcs EXCEPT ![r] = "exit1"]
       ELSE /\ pcs' = [pcs EXCEPT ![r] = "crashed"]
            /\ UNCHANGED << partial, taken >>
    /\ UNCHANGED << ntasks, tdone, sealed, mine, curlink, runVars,
                    secretsVars, envVars, defsVars >>

\* A step of the run r.
RunStep(r) ==
    \/ RunMkdir(r)
    \/ RunTask(r)
    \/ RunRename(r)
    \/ RunManifest(r)
    \/ RunUnlink(r)
    \/ RunSymlink(r)
    \/ RunExcept(r)
    \/ RunRmtree(r)

NextTwo == \E r \in Runs : RunStep(r)

SpecTwo == InitTwo /\ [][NextTwo]_vars

\* The other run has not started, or it has ended.
Alone(r) == \A o \in Runs \ {r} : pcs[o] = "start" \/ Ended(o)

NextSeq == \E r \in Runs : Alone(r) /\ RunStep(r)

SpecSeq == InitTwo /\ [][NextSeq]_vars

\* --------------------------------------------------------------------- C19

\* The run r is executing its tasks and its working directory is gone.
LostWorkingDirectory(r) == InTasks(r) /\ ~partial.exists

\* The directory of the minute m holds outputs of both runs.
HoldsBothRuns(m) == sealed[m].exists /\ sealed[m].files = Runs

\* C19: two runs on one backups root are not isolated.  A run that is
\* executing its tasks finds .partial gone exactly through the other run:
\* the other run's rename or rmtree took the shared directory away, and it
\* has not been created since.  (That such a state is reached, and that the
\* renamed directory then holds the outputs of both runs, is C19_Witness.)
C19_NotIsolated ==
    \A r \in Runs :
        LostWorkingDirectory(r)
            => /\ taken \in Runs \ {r}
               /\ pcs[taken] \in {"manifest", "unlink", "symlink", "done",
                                  "main_except", "rmtree", "exit1",
                                  "crashed"}

\* A run that has written an output and is still executing its tasks has
\* lost its working directory to the rename of the other run, which has
\* published the outputs of both runs in one directory.
C19_Witness ==
    \E r \in Runs :
        /\ LostWorkingDirectory(r)
        /\ tdone[r] >= 1
        /\ taken \in Runs \ {r}
        /\ mine[taken] \in Times
        /\ HoldsBothRuns(mine[taken])

\* --------------------------------------------------------------------- C20

\* C20: over a sequence of runs on one backups root, .partial is absent or
\* empty when a run starts its first task, and a timestamped directory
\* holds only outputs of the run that renamed it: no output left by an
\* earlier failed run is published by a later one.
C20_SnapshotOwnOutputsOnly ==
    /\ \A r \in Runs : (InTasks(r) /\ tdone[r] = 0) => partial.files = {}
    /\ \A m \in Times :
           sealed[m].exists => sealed[m].files \subseteq {sealed[m].by}

\* --------------------------------------------------------------------- C21

RECURSIVE HasAlias(_)
\* The mapping holds a string that begins with '#', at any depth.
HasAlias(items) ==
    \E n \in DOMAIN items :
        \/ IsAlias(items[n].v)
        \/ items[n].v.kind = "dict" /\ HasAlias(items[n].v.m)

\* What a second call of _resolve_secrets does with the result of the first.
ResolvedAgain == ResolveSecrets(new_env[1].value, secrets)

\* An environment without '#'-prefixed strings is returned unchanged.
AliasFreeUnchanged ==
    (env.kind = "dict" /\ ~HasAlias(env.m))
        => ~new_env[1].raised /\ new_env[1].value = env

\* C21: repeated resolution is harmless: for every environment and backend
\* list, _resolve_secrets applied to the result of _resolve_secrets returns
\* that result: an environment without '#'-prefixed strings is returned
\* unchanged, and a value a backend returned, even one that begins with
\* '#', is not taken for an alias by a later pass.
C21_RepeatedResolutionHarmless ==
    new_env # <<>> =>
        /\ AliasFreeUnchanged
        /\ ~new_env[1].raised
              => /\ ~ResolvedAgain.raised
                 /\ ResolvedAgain.value = new_env[1].value

====
